---- MODULE Spec2Model ----
(***************************************************************************)
(* Fold-consistent cross-validation engine of smonig/ml-framework:         *)
(* train.py (fold assignment, balance check, leave-one-fold-out training   *)
(* loop, model logging) and predict.py (fold assignment at inference,      *)
(* fold-routed scoring, restoration of the original row order).            *)
(*                                                                         *)
(* Numbers that come from the configuration are kept with their Python     *)
(* type and as twice their value, so that 0.5, 1.0, 1.5, 2.0 ... are       *)
(* representable: [ty |-> "int", twice |-> 4] is the int 2,                *)
(* [ty |-> "float", twice |-> 3] is the float 1.5.                         *)
(* Rows of a data frame are numbered 1..N.  The grouping (split) feature   *)
(* is an integer column (an event number), negative values included.       *)
(***************************************************************************)
EXTENDS Integers, Sequences, FiniteSets, TLC

\* ---------------------------------------------------------------- bounds
MaxRecords == 4
MaxGroupVal == 2
MaxSplits == 3
MaxEvt == 3
MaxRows == 3

\* 0.05 in train.py line 42, as the fraction 1 / ToleranceInv
ToleranceInv == 20

VARIABLES
    cfg,                    \* the hydra configuration (n_splits)
    split_feature_values,   \* train_df[cfg["xtrain_split_feature"]], one per row
    fold_id,                \* train_df['fold_id'] (<<>> until assigned)
    splitter,               \* the splitter behind idx_yielder (kind "none" until set up)
    pc,                     \* position of train.py main()
    err,                    \* the exception that ended train.py main(), or "none"
    i_fold,                 \* enumerate() counter of the fold loop
    train_idx,              \* row set of the split being processed
    validation_idx,
    iterated,               \* the splits the fold loop has received so far
    fits,                   \* completed lgb.train calls: label, train rows, validation rows
    model,                  \* the booster between lgb.train and log_model
    store,                  \* models logged to the tracking store (mlflow artifacts)
    ipc,                    \* position of predict.py main()
    ierr,                   \* the exception that ended predict.py main(), or "none"
    n_splits,               \* n_splits as returned by load_models
    models,                 \* models as returned by load_models
    pred_fold_id,           \* df['fold_id'] at inference
    scored_by,              \* per row: the model that produced its prediction
    output_format,          \* cfg["output_format"]
    pred_dict,              \* the prediction table: rows [key, pred]
    orig_index,             \* (evt, run) tuples of the original file, in file order
    rpc,                    \* position of the output step
    rerr,                   \* the exception that ended the output step, or "none"
    out                     \* the rows handed to the output writer

trainVars == <<cfg, split_feature_values, fold_id, splitter, pc, err, i_fold, train_idx,
               validation_idx, iterated, fits, model, store>>
predVars == <<ipc, ierr, n_splits, models, pred_fold_id, scored_by>>
outVars == <<output_format, pred_dict, orig_index, rpc, rerr, out>>
vars == <<trainVars, predVars, outVars>>

\* ---------------------------------------------------------------- helpers
Range(s) == {s[i] : i \in DOMAIN s}

RECURSIVE SetSum(_, _)
SetSum(f, S) ==
    IF S = {} THEN 0
    ELSE LET x == CHOOSE y \in S : TRUE IN f[x] + SetSum(f, S \ {x})

RECURSIVE SortedSeq(_)
SortedSeq(S) ==
    IF S = {} THEN <<>>
    ELSE LET m == CHOOSE x \in S : \A y \in S : x <= y
         IN <<m>> \o SortedSeq(S \ {m})

SeqsUpTo(S, n) == UNION {[1..k -> S] : k \in 0..n}

IntNum(k) == [ty |-> "int", twice |-> 2 * k]
FloatNum(t) == [ty |-> "float", twice |-> t]

\* the values cfg["n_splits"] ranges over: ints -1..MaxSplits, floats -0.5..MaxSplits
NSplitsCfg ==
    {IntNum(k) : k \in -1..MaxSplits} \cup {FloatNum(t) : t \in -1..(2 * MaxSplits)}

\* cfg["train_size"] as a fraction <<numerator, denominator>> in (0, 1)
TrainSizes == {<<1, 4>>, <<1, 2>>, <<3, 4>>}

GroupVals == -1..MaxGroupVal

\* ---------------------------------------------------------------- train.py
\* as IsIntType, with the type assertion of line 36 left out
IsIntTypeUnchecked(v) == TRUE

\* cfg["n_splits"] > 1, cfg["n_splits"] == 1, type(cfg["n_splits"]) == int
GreaterThanOne(v) == v.twice > 2

EqualsOne(v) == v.twice = 2

IsIntType(v) == v.ty = "int"

\* as ModAsInt32, with a remainder that takes the sign of the dividend (C's %)
ModAsInt32Truncated(g, v) ==
    IF g < 0 THEN 0 - (((2 * (0 - g)) % v.twice) \div 2)
    ELSE ((2 * g) % v.twice) \div 2

\* (values % n).astype('int32'): numpy's floored modulo, then truncation
ModAsInt32(g, v) == ((2 * g) % v.twice) \div 2

AssignFoldIds(values, v) == [i \in DOMAIN values |-> ModAsInt32(values[i], v)]

\* Series.value_counts(): one count per value that occurs
value_counts(col) ==
    [g \in Range(col) |-> Cardinality({i \in DOMAIN col : col[i] = g})]

\* np.std(counts) / np.mean(counts) > 0.05 (population standard deviation).
\* With k counts, S their sum and Q the sum of their squares:
\* std / mean = sqrt(k*Q - S*S) / S; nan (no counts) compares False.
RelStdExceeds(counts) ==
    LET K == DOMAIN counts
        k == Cardinality(K)
        S == SetSum(counts, K)
        Q == SetSum([g \in K |-> counts[g] * counts[g]], K)
    IN ToleranceInv * ToleranceInv * (k * Q - S * S) > S * S

BalanceCheckFails(col) == RelStdExceeds(value_counts(col))

\* as LeaveOneGroupOut, with every group up to the k-th left out of split k
LeaveOneGroupOutCumulative(groups) ==
    LET u == SortedSeq(Range(groups))
    IN [k \in 1..Len(u) |->
            [train |-> {i \in DOMAIN groups : groups[i] > u[k]},
             valid |-> {i \in DOMAIN groups : groups[i] <= u[k]}]]

\* LeaveOneGroupOut().split(df, groups): one split per distinct group value, in
\* ascending order of the value; raises when there are fewer than 2 groups
LeaveOneGroupOutRaises(groups) == Cardinality(Range(groups)) < 2

LeaveOneGroupOut(groups) ==
    LET u == SortedSeq(Range(groups))
    IN [k \in 1..Len(u) |->
            [train |-> {i \in DOMAIN groups : groups[i] # u[k]},
             valid |-> {i \in DOMAIN groups : groups[i] = u[k]}]]

\* ShuffleSplit(n_splits=1, train_size=f, random_state=1357).split(df):
\* n_train = floor(f * N), the validation rows are all the others; raises when
\* the train set would be empty.  The seeded permutation is left open.
NTrain(N, f) == (f[1] * N) \div f[2]

ShuffleSplitRaises(N, f) == NTrain(N, f) = 0

ShuffleSplit(N, f) ==
    {[train |-> T, valid |-> (1..N) \ T] :
        T \in {T \in SUBSET (1..N) : Cardinality(T) = NTrain(N, f)}}

NRows == Len(split_feature_values)

\* lines 35-36, 48, 53-54: the branch on cfg["n_splits"]
CheckNSplits ==
    /\ pc = "start"
    /\ IF GreaterThanOne(cfg.n_splits)
       THEN IF IsIntType(cfg.n_splits)
            THEN pc' = "kfold" /\ err' = err
            ELSE pc' = "failed" /\ err' = "AssertionError:type"
       ELSE IF EqualsOne(cfg.n_splits)
            THEN pc' = "holdout" /\ err' = err
            ELSE pc' = "failed" /\ err' = "ValueError:n_splits"
    /\ UNCHANGED <<cfg, split_feature_values, fold_id, splitter, i_fold, train_idx,
                   validation_idx, iterated, fits, model, store>>
    /\ UNCHANGED <<predVars, outVars>>

\* lines 37-38
AssignTrainFoldIds ==
    /\ pc = "kfold"
    /\ fold_id' = AssignFoldIds(split_feature_values, cfg.n_splits)
    /\ pc' = "balance"
    /\ UNCHANGED <<cfg, split_feature_values, splitter, err, i_fold, train_idx,
                   validation_idx, iterated, fits, model, store>>
    /\ UNCHANGED <<predVars, outVars>>

\* lines 40-47: the balance check, then the splitter is set up
BalanceCheck ==
    /\ pc = "balance"
    /\ IF BalanceCheckFails(fold_id)
       THEN pc' = "failed" /\ err' = "Exception:imbalance" /\ splitter' = splitter
       ELSE pc' = "run" /\ err' = err /\ splitter' = [kind |-> "LeaveOneGroupOut"]
    /\ UNCHANGED <<cfg, split_feature_values, fold_id, i_fold, train_idx,
                   validation_idx, iterated, fits, model, store>>
    /\ UNCHANGED <<predVars, outVars>>

\* lines 49-52; cfg["train_size"] is read here
AssignHoldout ==
    /\ pc = "holdout"
    /\ fold_id' = [i \in DOMAIN split_feature_values |-> 0]
    /\ \E f \in TrainSizes : splitter' = [kind |-> "ShuffleSplit", train_size |-> f]
    /\ pc' = "run"
    /\ UNCHANGED <<cfg, split_feature_values, err, i_fold, train_idx,
                   validation_idx, iterated, fits, model, store>>
    /\ UNCHANGED <<predVars, outVars>>

\* lines 56-64
StartRun ==
    /\ pc = "run"
    /\ pc' = "next"
    /\ UNCHANGED <<cfg, split_feature_values, fold_id, splitter, err, i_fold, train_idx,
                   validation_idx, iterated, fits, model, store>>
    /\ UNCHANGED <<predVars, outVars>>

Yield(s) ==
    /\ train_idx' = s.train
    /\ validation_idx' = s.valid
    /\ iterated' = Append(iterated, s)
    /\ pc' = "check"
    /\ err' = err

SplitterRaises ==
    /\ pc' = "failed"
    /\ err' = "ValueError:splitter"
    /\ UNCHANGED <<train_idx, validation_idx, iterated>>

Exhausted ==
    /\ pc' = "done"
    /\ UNCHANGED <<err, train_idx, validation_idx, iterated>>

\* lines 67-70: the for statement asks idx_yielder for the next split
NextSplit ==
    /\ pc = "next"
    /\ IF splitter.kind = "LeaveOneGroupOut"
       THEN IF LeaveOneGroupOutRaises(fold_id)
            THEN SplitterRaises
            ELSE IF i_fold < Len(LeaveOneGroupOut(fold_id))
                 THEN Yield(LeaveOneGroupOut(fold_id)[i_fold + 1])
                 ELSE Exhausted
       ELSE IF i_fold >= 1
            THEN Exhausted
            ELSE IF ShuffleSplitRaises(NRows, splitter.train_size)
                 THEN SplitterRaises
                 ELSE \E s \in ShuffleSplit(NRows, splitter.train_size) : Yield(s)
    /\ UNCHANGED <<cfg, split_feature_values, fold_id, splitter, i_fold, fits, model, store>>
    /\ UNCHANGED <<predVars, outVars>>

\* lines 72-74
FoldIdsOf(idx) == {fold_id[i] : i \in idx}

\* as ConsistencyHolds, without the comparison with i_fold
ConsistencyHoldsAnyFold(idx, i) == Cardinality(FoldIdsOf(idx)) = 1

ConsistencyHolds(idx, i) == Cardinality(FoldIdsOf(idx)) = 1 /\ i \in FoldIdsOf(idx)

ConsistencyCheck ==
    /\ pc = "check"
    /\ IF ConsistencyHolds(validation_idx, i_fold)
       THEN pc' = "fit" /\ err' = err
       ELSE pc' = "failed" /\ err' = "AssertionError:fold"
    /\ UNCHANGED <<cfg, split_feature_values, fold_id, splitter, i_fold, train_idx,
                   validation_idx, iterated, fits, model, store>>
    /\ UNCHANGED <<predVars, outVars>>

\* lines 76-90: lgb.train returns a booster fitted on the train rows
Fit ==
    /\ pc = "fit"
    /\ model' = [train |-> train_idx]
    /\ fits' = Append(fits, [label |-> i_fold, train |-> train_idx,
                             valid |-> validation_idx])
    /\ pc' = "log"
    /\ UNCHANGED <<cfg, split_feature_values, fold_id, splitter, err, i_fold, train_idx,
                   validation_idx, iterated, store>>
    /\ UNCHANGED <<predVars, outVars>>

\* lines 88-90: lgb.train raises
FitFails ==
    /\ pc = "fit"
    /\ pc' = "failed"
    /\ err' = "FitError"
    /\ UNCHANGED <<cfg, split_feature_values, fold_id, splitter, i_fold, train_idx,
                   validation_idx, iterated, fits, model, store>>
    /\ UNCHANGED <<predVars, outVars>>

\* lines 92-96, and the loop moves to the next enumerate() index
LoggedModel(i, m) == [name |-> i, train |-> m.train]

LogModel ==
    /\ pc = "log"
    /\ store' = store \cup {LoggedModel(i_fold, model)}
    /\ i_fold' = i_fold + 1
    /\ pc' = "next"
    /\ UNCHANGED <<cfg, split_feature_values, fold_id, splitter, err, train_idx,
                   validation_idx, iterated, fits, model>>
    /\ UNCHANGED <<predVars, outVars>>

NoModel == [train |-> {}]

InitTrain ==
    /\ cfg \in [n_splits : NSplitsCfg]
    /\ split_feature_values \in SeqsUpTo(GroupVals, MaxRecords)
    /\ fold_id = <<>>
    /\ splitter = [kind |-> "none"]
    /\ pc = "start"
    /\ err = "none"
    /\ i_fold = 0
    /\ train_idx = {}
    /\ validation_idx = {}
    /\ iterated = <<>>
    /\ fits = <<>>
    /\ model = NoModel
    /\ store = {}

InitPred ==
    /\ ipc = "idle"
    /\ ierr = "none"
    /\ n_splits = IntNum(0)
    /\ models = {}
    /\ pred_fold_id = <<>>
    /\ scored_by = <<>>

InitOutIdle ==
    /\ output_format = "csv"
    /\ pred_dict = <<>>
    /\ orig_index = <<>>
    /\ rpc = "idle"
    /\ rerr = "none"
    /\ out = <<>>

\* ---------------------------------------------------------------- predict.py
\* utils.inference.load_models(run_folder): the models of the run, keyed by the
\* fold id in their name, with the n_splits the run was trained with
load_models(logged, c) == [models |-> logged, n_splits |-> c.n_splits]

HasModel(ms, f) == \E m \in ms : m.name = f

ModelOf(ms, f) == CHOOSE m \in ms : m.name = f

\* utils.inference.predict_folds: each row is scored by the model of its fold id
predict_folds(folds, ms) == [i \in DOMAIN folds |-> ModelOf(ms, folds[i])]

predict_foldsRaises(folds, ms) == \E i \in DOMAIN folds : ~HasModel(ms, folds[i])

\* lines 19-31: the run folder of a finished training run is loaded; the feature
\* names are read from artifacts/model_0/MLmodel
LoadModels ==
    /\ pc \in {"done", "failed"}
    /\ ipc = "idle"
    /\ IF HasModel(store, 0)
       THEN /\ models' = load_models(store, cfg).models
            /\ n_splits' = load_models(store, cfg).n_splits
            /\ ipc' = "loaded"
            /\ ierr' = ierr
       ELSE /\ ipc' = "failed"
            /\ ierr' = "FileNotFoundError"
            /\ UNCHANGED <<models, n_splits>>
    /\ UNCHANGED <<pred_fold_id, scored_by>>
    /\ UNCHANGED <<trainVars, outVars>>

\* as PredFoldIds, with the grouping value shifted by one before the modulo
PredFoldIdsShifted(values, v) ==
    [i \in DOMAIN values |-> ModAsInt32(values[i] + 1, v)]

\* line 44: (df[xtrain_split_feature] % n_splits).astype('int32')
PredFoldIds(values, v) == AssignFoldIds(values, v)

\* lines 43-44: the sample scored is the sample the run was trained on
AssignPredFoldIds ==
    /\ ipc = "loaded"
    /\ pred_fold_id' = PredFoldIds(split_feature_values, n_splits)
    /\ ipc' = "folded"
    /\ UNCHANGED <<ierr, n_splits, models, scored_by>>
    /\ UNCHANGED <<trainVars, outVars>>

\* lines 46-47
PredictFolds ==
    /\ ipc = "folded"
    /\ IF predict_foldsRaises(pred_fold_id, models)
       THEN /\ ipc' = "failed"
            /\ ierr' = "MissingModelError"
            /\ scored_by' = scored_by
       ELSE /\ ipc' = "predicted"
            /\ ierr' = ierr
            /\ scored_by' = predict_folds(pred_fold_id, models)
    /\ UNCHANGED <<n_splits, models, pred_fold_id>>
    /\ UNCHANGED <<trainVars, outVars>>

\* ---------------------------------------------------------------- predict.py, output
RunIds == {10}

\* the (evt, run) identity keys
Keys == {<<evt, run>> : evt \in 1..MaxEvt, run \in RunIds}

\* a prediction table with the given (evt, run) keys; the score of row i is
\* written i, so that rows stay distinguishable
TableOf(ks) == [i \in DOMAIN ks |-> [key |-> ks[i], pred |-> i]]

KeysOf(table) == [i \in DOMAIN table |-> table[i].key]

RowsWithKey(table, k) == SelectSeq(table, LAMBDA row : row.key = k)

\* as Loc, keeping the table's own row order (a filter instead of a reindex)
LocTableOrder(table, keys) ==
    SelectSeq(table, LAMBDA row : row.key \in Range(keys))

\* df.set_index(['evt', 'run']).loc[keys]: for each key of the list, in list
\* order, the rows carrying that key; KeyError when a key of the list is not
\* in the index
RECURSIVE Loc(_, _)
Loc(table, keys) ==
    IF keys = <<>> THEN <<>>
    ELSE RowsWithKey(table, Head(keys)) \o Loc(table, Tail(keys))

LocRaises(table, keys) ==
    \E i \in DOMAIN keys : RowsWithKey(table, keys[i]) = <<>>

\* lines 51-68
StoreRoot ==
    /\ rpc = "store"
    /\ output_format = "root"
    /\ IF LocRaises(pred_dict, orig_index)
       THEN rpc' = "failed" /\ rerr' = "KeyError" /\ out' = out
       ELSE rpc' = "stored" /\ rerr' = rerr /\ out' = Loc(pred_dict, orig_index)
    /\ UNCHANGED <<output_format, pred_dict, orig_index>>
    /\ UNCHANGED <<trainVars, predVars>>

\* lines 70-75
StoreCsv ==
    /\ rpc = "store"
    /\ output_format = "csv"
    /\ rpc' = "stored"
    /\ out' = pred_dict
    /\ UNCHANGED <<output_format, pred_dict, orig_index, rerr>>
    /\ UNCHANGED <<trainVars, predVars>>

\* lines 76-77
UnknownFormat ==
    /\ rpc = "store"
    /\ output_format \notin {"root", "csv"}
    /\ rpc' = "failed"
    /\ rerr' = "Exception:format"
    /\ UNCHANGED <<output_format, pred_dict, orig_index, out>>
    /\ UNCHANGED <<trainVars, predVars>>

\* ---------------------------------------------------------------- specifications
Init == InitTrain /\ InitPred /\ InitOutIdle

Next ==
    \/ CheckNSplits
    \/ AssignTrainFoldIds
    \/ BalanceCheck
    \/ AssignHoldout
    \/ StartRun
    \/ NextSplit
    \/ ConsistencyCheck
    \/ Fit
    \/ FitFails
    \/ LogModel
    \/ LoadModels
    \/ AssignPredFoldIds
    \/ PredictFolds

\* train.py, then predict.py up to the prediction table
Spec == Init /\ [][Next]_vars

InitTrainIdle ==
    /\ cfg = [n_splits |-> IntNum(1)]
    /\ split_feature_values = <<>>
    /\ fold_id = <<>>
    /\ splitter = [kind |-> "none"]
    /\ pc = "start"
    /\ err = "none"
    /\ i_fold = 0
    /\ train_idx = {}
    /\ validation_idx = {}
    /\ iterated = <<>>
    /\ fits = <<>>
    /\ model = NoModel
    /\ store = {}

InitOut ==
    /\ output_format \in {"root", "csv", "parquet"}
    /\ pred_dict \in {TableOf(ks) : ks \in SeqsUpTo(Keys, MaxRows)}
    /\ orig_index \in SeqsUpTo(Keys, MaxRows)
    /\ rpc = "store"
    /\ rerr = "none"
    /\ out = <<>>

InitRestore == InitTrainIdle /\ InitPred /\ InitOut

NextRestore ==
    \/ StoreRoot
    \/ StoreCsv
    \/ UnknownFormat

\* predict.py from the prediction table to the rows written out
SpecRestore == InitRestore /\ [][NextRestore]_vars

\* ---------------------------------------------------------------- properties
AllRows == 1..NRows

\* the integer value of cfg["n_splits"] once CheckNSplits has accepted it
NVal == cfg.n_splits.twice \div 2

ConfigErrors == {"ValueError:n_splits", "AssertionError:type"}

ValidSets(splits) == {splits[k].valid : k \in DOMAIN splits}

PairwiseDisjoint(splits) ==
    \A j, k \in DOMAIN splits : j # k => splits[j].valid \cap splits[k].valid = {}

Count(seq, x) == Cardinality({i \in DOMAIN seq : seq[i] = x})

SameMultiset(a, b) == \A x \in Range(a) \cup Range(b) : Count(a, x) = Count(b, x)

DistinctKeys(table) ==
    \A j, k \in DOMAIN table : j # k => table[j].key # table[k].key

\* one count per fold id in [0, n_splits), absent fold ids counted as 0
FullFoldCounts ==
    [f \in 0..(NVal - 1) |-> Cardinality({r \in AllRows : fold_id[r] = f})]

\* C1: with n_splits > 1, once the fold loop has received a split, the splits
\* it is handed are the planned ones, their validation sets are pairwise
\* disjoint and cover every row; the sets received so far never overlap, and
\* when the loop ends every row has been in exactly one of them.
C1_PartitionLaw ==
    (GreaterThanOne(cfg.n_splits) /\ iterated # <<>>) =>
        /\ PairwiseDisjoint(LeaveOneGroupOut(fold_id))
        /\ UNION ValidSets(LeaveOneGroupOut(fold_id)) = AllRows
        /\ Len(iterated) <= Len(LeaveOneGroupOut(fold_id))
        /\ iterated = SubSeq(LeaveOneGroupOut(fold_id), 1, Len(iterated))
        /\ PairwiseDisjoint(iterated)
        /\ pc = "done" => UNION ValidSets(iterated) = AllRows

C1_Witness ==
    /\ GreaterThanOne(cfg.n_splits)
    /\ pc = "done"
    /\ Len(iterated) = 3
    /\ NRows = 3

\* the routing law of C2 for one training run and the inference that follows it
RoutingLaw ==
    /\ \A m \in store : \A r \in m.train : fold_id[r] # m.name
    /\ pred_fold_id # <<>> =>
           \A r \in AllRows : pred_fold_id[r] = split_feature_values[r] % NVal
    /\ ipc = "predicted" =>
           \A r \in AllRows :
               /\ scored_by[r].name = pred_fold_id[r]
               /\ r \notin scored_by[r].train

\* C2 as stated: for every trained ensemble, model_i was fitted only on rows
\* whose fold id differs from i, inference assigns fold id = grouping value
\* mod n_splits, and every row is scored by the model named after its fold id,
\* which did not train on it.
C2_RoutingLawAllEnsembles == RoutingLaw

\* C2, amended: the same for ensembles trained with n_splits > 1.
C2_RoutingLawKFold == GreaterThanOne(cfg.n_splits) => RoutingLaw

C2_Witness ==
    /\ GreaterThanOne(cfg.n_splits)
    /\ ipc = "predicted"
    /\ Cardinality(store) >= 2
    /\ NRows >= 2

\* C3: when the fit of a fold fails, no model of any fold has been persisted
\* to the tracking store.
C3_NoPartialEnsemble == err = "FitError" => store = {}

\* C4: order restoration ends in an error whenever the keys of the canonical
\* order and the keys of the prediction table are not the same multiset.
C4_MismatchRaises ==
    (/\ output_format = "root"
     /\ rpc # "store"
     /\ ~SameMultiset(orig_index, KeysOf(pred_dict))) =>
        (rpc = "failed" /\ rerr = "KeyError")

\* C5: at training and at inference the fold id of a row is its grouping
\* value mod n_splits, a value in [0, n_splits); with the same n_splits the
\* row gets the same fold id in both (0 for n_splits == 1).
C5_FoldIdLaw ==
    /\ fold_id # <<>> =>
           \A r \in AllRows :
               /\ fold_id[r] = split_feature_values[r] % NVal
               /\ fold_id[r] \in 0..(NVal - 1)
               /\ EqualsOne(cfg.n_splits) => fold_id[r] = 0
    /\ (pred_fold_id # <<>> /\ n_splits = cfg.n_splits) =>
           \A r \in AllRows :
               /\ pred_fold_id[r] = split_feature_values[r] % NVal
               /\ pred_fold_id[r] \in 0..(NVal - 1)
               /\ pred_fold_id[r] = fold_id[r]

C5_Witness ==
    /\ pred_fold_id # <<>>
    /\ n_splits = cfg.n_splits
    /\ NVal >= 2
    /\ \E r \in AllRows : split_feature_values[r] < 0
    /\ \E r \in AllRows : split_feature_values[r] >= NVal

\* C6: with n_splits > 1, whenever the relative standard deviation of the
\* fold counts, one per fold id in [0, n_splits), exceeds 5% no model is ever
\* fitted, and otherwise the balance check does not fail; counts
\* [1000, 1000, 50] exceed the tolerance and [980, 1010, 1000] do not.
C6_BalanceCheck ==
    /\ RelStdExceeds(<<1000, 1000, 50>>)
    /\ ~RelStdExceeds(<<980, 1010, 1000>>)
    /\ (GreaterThanOne(cfg.n_splits) /\ pc \notin {"start", "kfold"} /\ err \notin ConfigErrors) =>
           IF RelStdExceeds(FullFoldCounts)
           THEN fits = <<>>
           ELSE err # "Exception:imbalance"

\* C7: a run with n_splits > 1 that completes has stored exactly the models
\* model_0 .. model_{n_splits-1}; model f was validated on exactly the rows of
\* fold f and trained on exactly all the others.
C7_OneModelPerFold ==
    (GreaterThanOne(cfg.n_splits) /\ pc = "done") =>
        /\ {m.name : m \in store} = 0..(NVal - 1)
        /\ Cardinality(store) = NVal
        /\ \A m \in store : m.train = {r \in AllRows : fold_id[r] # m.name}
        /\ \A k \in DOMAIN fits :
               /\ fits[k].valid = {r \in AllRows : fold_id[r] = fits[k].label}
               /\ fits[k].train = AllRows \ fits[k].valid

\* C8: when the canonical keys and the table's keys are the same multiset of
\* distinct keys, restoration succeeds and writes one row per canonical key,
\* in canonical order, each row being the table's row for that key; the rows
\* written are a permutation of the table's rows.
C8_RestoreIsPermutation ==
    (/\ output_format = "root"
     /\ rpc # "store"
     /\ DistinctKeys(pred_dict)
     /\ SameMultiset(orig_index, KeysOf(pred_dict))) =>
        /\ rpc = "stored"
        /\ Len(out) = Len(orig_index)
        /\ \A i \in DOMAIN out :
               /\ out[i].key = orig_index[i]
               /\ \E j \in DOMAIN pred_dict : pred_dict[j] = out[i]
        /\ \A j \in DOMAIN pred_dict :
               Cardinality({i \in DOMAIN out : out[i] = pred_dict[j]}) = 1

C8_Witness ==
    /\ output_format = "root"
    /\ rpc = "stored"
    /\ Len(pred_dict) = 3
    /\ DistinctKeys(pred_dict)
    /\ SameMultiset(orig_index, KeysOf(pred_dict))
    /\ orig_index # KeysOf(pred_dict)

C10_FoldOrder ==
    /\ \A k \in DOMAIN fits :
           /\ fits[k].label = k - 1
           /\ FoldIdsOf(fits[k].valid) = {fits[k].label}
    /\ Len(fits) = IF pc = "log" THEN i_fold + 1 ELSE i_fold
    /\ pc \in {"fit", "log"} => FoldIdsOf(validation_idx) = {i_fold}
    /\ err = "AssertionError:fold" =>
           /\ FoldIdsOf(validation_idx) # {i_fold}
           /\ Len(fits) = i_fold

C10_Witness ==
    /\ err = "AssertionError:fold"
    /\ Len(fits) >= 1
====
